---- MODULE Spec2Model ----
(***************************************************************************)
(* A model of sphinx-marimo: the notebook transformer (transform.py) and   *)
(* the Sphinx Gallery integration (gallery_integration.py).                *)
(*                                                                         *)
(* Text is a sequence of tokens.  Every token stands for a fixed piece of  *)
(* text that contains no newline and no cell decorator of its own:         *)
(*   "DEC"   @app.cell                  "DECH"  @app.cell(hide_code=True)  *)
(*   "NL"    a newline                  "SP"    four blanks                *)
(*   "IMO"   import marimo as mo        "IM"    import marimo              *)
(*   "MAIN"  if __name__                "X","Y" code, x = 1 and y = 2      *)
(*   "W"     a word of markdown         and the lines of the cell template *)
(* Concatenating tokens concatenates their texts, so a regular expression  *)
(* of the code is modelled by what it matches on the tokens, the word      *)
(* boundaries \b between neighbouring tokens included.                     *)
(***************************************************************************)
EXTENDS Integers, Sequences, FiniteSets, TLC

VARIABLES
    orig,       \* transform: the notebook text the run started from
    text,       \* transform: the notebook text in hand
    src,        \* transform: the text the last operation was applied to
    last,       \* transform: the operation that produced text
    moves,      \* transform: successive move_imports_to_top calls so far
    parsed,     \* transform: result of _parse_notebook(text), or NoParse
    files,      \* transform: the files transform_notebook reads and writes
    targ,       \* transform: arguments and return value of transform_notebook
    config,                 \* gallery: app.config
    gallery_detected,       \* gallery: self.gallery_detected
    gallery_notebooks_dir,  \* gallery: self.gallery_notebooks_dir
    marimo_gallery_dir,     \* gallery: self.marimo_gallery_dir
    obs,                    \* gallery: the last call made and what it returned
    parallel_build,         \* gallery: self.parallel_build
    memory,                 \* gallery: self.memory is set (a cache_dir was given)
    options,                \* gallery: self.prepend_markdown, self.move_imports_to_top
    downloads,              \* disk: the _downloads directory and its .ipynb files
    py,                     \* disk: the intermediate <stem>.py files of the output dir
    html,                   \* disk: the <stem>.html artifacts of the output dir
    manifest,               \* disk: gallery_manifest.json
    cache,                  \* disk: the joblib store, the argument tuples it holds
    bpc,                    \* build: position of convert_gallery_notebooks
    ipynb_files,            \* build: the list rglob returned
    unit,                   \* build: the conversion units, one per list entry
    nextu,                  \* build: the unit whose result the loop takes next
    converted_notebooks,    \* build: the dict being filled
    builds,                 \* build: calls of convert_gallery_notebooks so far
    bret,                   \* build: what the last call returned
    saved,                  \* build: the dict last given to _save_gallery_manifest
    lastcall,               \* build: per notebook, its last finished conversion call
    loadedNotebooks,        \* page: MarimoLoader.loadedNotebooks
    dom,                    \* page: per container, its divs, listeners and iframe height
    event                   \* page: the last loader call or browser event

tvars == <<orig, text, src, last, moves, parsed, files, targ>>
cvars == <<config, gallery_detected, gallery_notebooks_dir, marimo_gallery_dir, obs>>
bvars == <<parallel_build, memory, options, downloads, py, html, manifest, cache, bpc,
           ipynb_files, unit, nextu, converted_notebooks, builds, bret, saved, lastcall>>
gvars == <<cvars, bvars>>
lvars == <<loadedNotebooks, dom, event>>
vars == <<tvars, gvars, lvars>>

-----------------------------------------------------------------------------
(* Bounds of the exploration *)

MaxLen == 3         \* arbitrary token strings up to this length
MaxCells == 4       \* well-formed notebooks up to this many cells
MaxMoves == 2       \* successive move_imports_to_top calls
MaxBuilds == 2      \* calls of convert_gallery_notebooks
MaxFiles == 2       \* notebooks in the downloads directory

-----------------------------------------------------------------------------
(* Tokens *)

Decorators == {"DEC", "DECH"}

\* tokens whose text begins, respectively ends, with a word character
WordStart == {"IMO", "IM", "MAIN", "X", "Y", "W", "def__", "def__mo", "mo.md(",
              "rq", "return", "return_mo"}
WordEnd == {"DEC", "IMO", "IM", "MAIN", "X", "Y", "W", "return"}

Alphabet == {"DEC", "NL", "SP", "IMO", "IM", "MAIN", "X"}

NoParse == [none |-> TRUE]
NoFile == <<"ENOENT">>
None == "None"
NoMd == <<"None">>     \* prepend_markdown=None

-----------------------------------------------------------------------------
(* String helpers *)

Min(S) == CHOOSE x \in S : \A y \in S : x <= y

\* str.find on tokens: the first index of tok, 0 when absent
Find(t, tok) ==
    LET I == {i \in 1..Len(t) : t[i] = tok}
    IN IF I = {} THEN 0 ELSE Min(I)

\* the first index at which sub occurs in t, 0 when it does not
FindSub(t, sub) ==
    LET I == {i \in 1..(Len(t) - Len(sub) + 1) :
                 SubSeq(t, i, i + Len(sub) - 1) = sub}
    IN IF I = {} THEN 0 ELSE Min(I)

RECURSIVE Concat(_)
\* "".join(list)
Concat(ss) == IF Len(ss) = 0 THEN <<>> ELSE Head(ss) \o Concat(Tail(ss))

RECURSIVE SplitNL(_)
\* str.split('\n')
SplitNL(t) ==
    LET i == Find(t, "NL")
    IN IF i = 0 THEN <<t>>
       ELSE <<SubSeq(t, 1, i - 1)>> \o SplitNL(SubSeq(t, i + 1, Len(t)))

RECURSIVE JoinNL(_)
\* '\n'.join(lines)
JoinNL(ls) ==
    IF Len(ls) = 0 THEN <<>>
    ELSE IF Len(ls) = 1 THEN ls[1]
    ELSE ls[1] \o <<"NL">> \o JoinNL(Tail(ls))

RECURSIVE Strip(_)
\* the leading blanks removed, as far as startswith looks
Strip(l) == IF Len(l) > 0 /\ l[1] = "SP" THEN Strip(Tail(l)) ELSE l

\* line.strip().startswith('if __name__')
StartsWithMain(l) == Len(Strip(l)) > 0 /\ Strip(l)[1] = "MAIN"

RECURSIVE ReSplit(_)
\* re.split(r'(@app\.cell(?:\([^)]*\))?)', content)
ReSplit(t) ==
    LET I == {i \in 1..Len(t) : t[i] \in Decorators}
    IN IF I = {} THEN <<t>>
       ELSE LET i == Min(I)
            IN <<SubSeq(t, 1, i - 1), <<t[i]>>>> \o ReSplit(SubSeq(t, i + 1, Len(t)))

\* re.search(r'\bimport\s+marimo\b', cell)
HasImportMarimo(cell) ==
    \E i \in 1..Len(cell) :
        /\ cell[i] \in {"IM", "IMO"}
        /\ (i = 1 \/ cell[i - 1] \notin WordEnd)
        /\ (cell[i] = "IMO" \/ i = Len(cell) \/ cell[i + 1] \notin WordStart)

\* re.search(r'\bimport\s+marimo\s+as\s+mo\b', cell)
HasImportMo(cell) ==
    \E i \in 1..Len(cell) :
        /\ cell[i] = "IMO"
        /\ (i = 1 \/ cell[i - 1] \notin WordEnd)
        /\ (i = Len(cell) \/ cell[i + 1] \notin WordStart)

-----------------------------------------------------------------------------
(* transform.py *)

\* the special case of the last part: the cell content split at the first
\* line that starts with if __name__
SplitGuard(preamble, cells, dec, cell_content) ==
    LET cell_lines == SplitNL(cell_content)
        G == {k \in 1..Len(cell_lines) : StartsWithMain(cell_lines[k])}
        g == IF G = {} THEN Len(cell_lines) + 1 ELSE Min(G)
        actual_cell_lines == SubSeq(cell_lines, 1, g - 1)
        postamble_lines == SubSeq(cell_lines, g, Len(cell_lines))
    IN [preamble |-> preamble,
        cells |-> IF Len(actual_cell_lines) > 0
                  THEN Append(cells, dec \o JoinNL(actual_cell_lines))
                  ELSE cells,
        postamble |-> JoinNL(postamble_lines)]

RECURSIVE ParseLoop(_, _, _)
\* the for loop over range(1, len(parts), 2)
ParseLoop(parts, i, cells) ==
    IF i > Len(parts) THEN [preamble |-> parts[1], cells |-> cells, postamble |-> <<>>]
    ELSE IF i + 1 <= Len(parts)
         THEN IF i + 2 > Len(parts) /\ Find(parts[i + 1], "MAIN") # 0
              THEN SplitGuard(parts[1], cells, parts[i], parts[i + 1])
              ELSE ParseLoop(parts, i + 2, Append(cells, parts[i] \o parts[i + 1]))
         ELSE ParseLoop(parts, i + 2, Append(cells, parts[i]))

_parse_notebook(content) == ParseLoop(ReSplit(content), 2, <<>>)

\* the display cell both branches of prepend_markdown build
MarkdownDisplayCell(markdown_text) ==
    <<"DECH", "NL", "def__mo", "NL", "SP", "mo.md(", "NL", "SP", "SP", "rq", "NL",
      "SP", "SP">>
    \o markdown_text
    \o <<"NL", "SP", "SP", "q", "NL", "SP", ")", "NL", "SP", "return", "NL", "NL", "NL">>

_create_markdown_cell(markdown_content) ==
    <<"DEC", "NL", "def__", "NL", "SP", "IMO", "NL", "SP", "return_mo", "NL", "NL", "NL">>
    \o MarkdownDisplayCell(markdown_content)

prepend_markdown(content, markdown_text) ==
    LET p == _parse_notebook(content)
        has_mo_import == \E k \in 1..Len(p.cells) : HasImportMo(p.cells[k])
        markdown_cell == IF has_mo_import
                         THEN MarkdownDisplayCell(markdown_text)
                         ELSE _create_markdown_cell(markdown_text)
    IN p.preamble \o Concat(<<markdown_cell>> \o p.cells) \o p.postamble

\* the cells that satisfy, respectively fail, the import test, in order
ImportCells(cells) == SelectSeq(cells, HasImportMarimo)
NotImport(cell) == ~HasImportMarimo(cell)
OtherCells(cells) == SelectSeq(cells, NotImport)

\* a reorder that puts the other cells first
ReorderOthersFirst(cells) == OtherCells(cells) \o ImportCells(cells)

\* cells = import_cells + other_cells
Reorder(cells) == ImportCells(cells) \o OtherCells(cells)

\* the cell list move_imports_to_top joins
MovedCells(content) == Reorder(_parse_notebook(content).cells)

move_imports_to_top(content) ==
    LET p == _parse_notebook(content)
    IN p.preamble \o Concat(MovedCells(content)) \o p.postamble

\* a transform that prepends whenever prepend_markdown is not None
TransformedEmptyMd(content, pm, mv) ==
    LET c1 == IF pm # NoMd THEN prepend_markdown(content, pm) ELSE content
    IN IF mv THEN move_imports_to_top(c1) ELSE c1

\* the content transform_notebook writes
Transformed(content, pm, mv) ==
    LET c1 == IF pm # NoMd /\ pm # <<>> THEN prepend_markdown(content, pm) ELSE content
    IN IF mv THEN move_imports_to_top(c1) ELSE c1

-----------------------------------------------------------------------------
(* Inputs *)

RECURSIVE Strings(_)
Strings(n) ==
    IF n = 0 THEN {<<>>}
    ELSE LET S == Strings(n - 1)
         IN S \cup {Append(s, a) : s \in {x \in S : Len(x) = n - 1}, a \in Alphabet}

CellShapes ==
    { <<"DEC", "NL", "X", "NL">>,
      <<"DEC", "NL", "Y", "NL">>,
      <<"DEC", "NL", "SP", "IMO", "NL">>,
      <<"DEC", "NL", "SP", "IM", "NL">> }

Preambles == { <<"IM", "NL">> }

Tails == { <<>>, <<"MAIN", "NL">>, <<"NL", "NL", "MAIN", "NL">> }

RECURSIVE CellLists(_)
CellLists(n) ==
    IF n = 0 THEN {<<>>}
    ELSE LET S == CellLists(n - 1)
         IN S \cup {Append(s, c) : s \in {x \in S : Len(x) = n - 1}, c \in CellShapes}

Notebooks ==
    {p \o Concat(cs) \o t : p \in Preambles, cs \in CellLists(MaxCells), t \in Tails}

Inputs == Strings(MaxLen) \cup Notebooks

MdTexts == { <<"W">> }

Paths == {"nb.py", "out.py"}

NoCall == [called |-> FALSE]

-----------------------------------------------------------------------------
(* gallery_integration.py: the disk, the cache and the manifest *)

\* names, as sequences of characters
AutoExamples == <<"a", "u", "t", "o", "_", "e", "x", "a", "m", "p", "l", "e", "s">>
PlotFoo == <<"p", "l", "o", "t", "_", "f", "o", "o">>
PlotBar == <<"p", "l", "o", "t", "_", "b", "a", "r">>
Slash == <<"/">>

\* the .ipynb files Sphinx Gallery can leave under _downloads/<hash>/
Universe ==
    { [dir |-> "h1", stem |-> PlotFoo],
      [dir |-> "h2", stem |-> PlotFoo],
      [dir |-> "h1", stem |-> PlotBar] }

Stems == {f.stem : f \in Universe}

NoSrc == [dir |-> "", stem |-> <<>>]
Absent == [present |-> FALSE, src |-> NoSrc, transformed |-> FALSE]
NoManifest == <<[k |-> "none", s |-> <<>>]>>
NoResult == [ok |-> FALSE, stem |-> <<>>]

OptionValues ==
    { [prepend_markdown |-> NoMd, move_imports_to_top |-> FALSE],
      [prepend_markdown |-> <<"W">>, move_imports_to_top |-> TRUE] }

\* the orders in which rglob can list a set of files
Orders(S) ==
    {o \in [1..Cardinality(S) -> S] : \A i, j \in 1..Cardinality(S) : o[i] = o[j] => i = j}

\* a dict is the sequence of its <<key, value>> items in insertion order
DictHas(d, key) == \E i \in 1..Len(d) : d[i][1] = key
DictGet(d, key) == d[CHOOSE i \in 1..Len(d) : d[i][1] = key][2]
DictSet(d, key, value) ==
    IF DictHas(d, key)
    THEN [i \in 1..Len(d) |-> IF d[i][1] = key THEN <<key, value>> ELSE d[i]]
    ELSE Append(d, <<key, value>>)
DictKeys(d) == {d[i][1] : i \in 1..Len(d)}

\* str(converted_path.relative_to(Path(outdir) / "_static"))
RelPathStr(stem) == <<"m", "a", "r", "i", "m", "o", "/", "g", "a", "l", "l", "e", "r", "y", "/">> \o stem \o <<".", "h", "t", "m", "l">>

Digit == <<"0", "1", "2", "3", "4", "5", "6", "7", "8", "9">>

RECURSIVE NumStr(_)
\* the decimal digits json.dump writes for an int
NumStr(n) == IF n < 10 THEN <<Digit[n + 1]>> ELSE NumStr(n \div 10) \o <<Digit[(n % 10) + 1]>>

DigitVal(c) == (CHOOSE i \in 1..10 : Digit[i] = c) - 1

RECURSIVE StrNum(_)
\* the int json.load reads from decimal digits
StrNum(ds) ==
    IF Len(ds) = 0 THEN 0
    ELSE 10 * StrNum(SubSeq(ds, 1, Len(ds) - 1)) + DigitVal(ds[Len(ds)])

\* JSON text is a sequence of tokens: punctuation, strings, numbers
Punct(c) == [k |-> "p", s |-> <<c>>]
JStr(x) == [k |-> "str", s |-> x]
JNum(n) == [k |-> "num", s |-> NumStr(n)]

RECURSIVE DumpItems(_)
DumpItems(d) ==
    IF Len(d) = 0 THEN <<>>
    ELSE <<JStr(d[1][1]), Punct(":"), JStr(d[1][2])>>
         \o (IF Len(d) > 1 THEN <<Punct(",")>> ELSE <<>>)
         \o DumpItems(Tail(d))

\* json.dump of a dict of strings
DumpStrDict(d) == <<Punct("{")>> \o DumpItems(d) \o <<Punct("}")>>

\* a manifest whose count is never updated
ManifestJsonZero(converted) ==
    <<Punct("{"), JStr(<<"gallery_notebooks">>), Punct(":")>>
    \o DumpStrDict(converted)
    \o <<Punct(","), JStr(<<"total_count">>), Punct(":"), JNum(0), Punct("}")>>

\* json.dump({"gallery_notebooks": converted_notebooks,
\*            "total_count": len(converted_notebooks)})
ManifestJson(converted) ==
    <<Punct("{"), JStr(<<"gallery_notebooks">>), Punct(":")>>
    \o DumpStrDict(converted)
    \o <<Punct(","), JStr(<<"total_count">>), Punct(":"), JNum(Len(converted)), Punct("}")>>

RECURSIVE LoadValue(_, _), LoadMembers(_, _, _)
\* json.load: the value that starts at token i, and the token after it
LoadValue(toks, i) ==
    IF toks[i].k = "p" THEN LoadMembers(toks, i + 1, <<>>)
    ELSE IF toks[i].k = "num" THEN [v |-> StrNum(toks[i].s), n |-> i + 1]
    ELSE [v |-> toks[i].s, n |-> i + 1]

LoadMembers(toks, i, acc) ==
    IF toks[i] = Punct("}") THEN [v |-> acc, n |-> i + 1]
    ELSE IF toks[i] = Punct(",") THEN LoadMembers(toks, i + 1, acc)
    ELSE LET val == LoadValue(toks, i + 2)
         IN LoadMembers(toks, val.n, DictSet(acc, toks[i].s, val.v))

JsonLoad(toks) == LoadValue(toks, 1).v

\* the argument tuple joblib keys the cache on
CacheKey(ipynb_file, opts) ==
    [ipynb_file |-> ipynb_file,
     marimo_py_file |-> <<ipynb_file.stem, "py">>,
     marimo_html_file |-> <<ipynb_file.stem, "html">>,
     prepend_markdown |-> opts.prepend_markdown,
     move_imports_to_top |-> opts.move_imports_to_top]

\* a lookup that never finds an entry
CacheMiss(store, key) == FALSE

\* cached_convert(...): is there a stored result for these arguments
CacheHit(store, key) == key \in store

\* a store that keeps an entry also for a call that raised
CacheStoreAlways(store, key, returned) == store \cup {key}

\* the store after cached_convert(...) ran the function: an entry is written
\* when the function returned, none when it raised
CacheStore(store, key, returned) ==
    IF returned THEN store \cup {key} ELSE store

\* a finished call of _convert_notebook_standalone: how many calls with these
\* arguments have finished (n), whether it returned a path (ok), how many
\* external commands it ran, whether its artifact existed when it returned,
\* the same of the call before it (prev_*), whether the output directory was
\* emptied after the artifact for these arguments was last written and before
\* this call (gap), or since this call (emptied)
NoCallYet == [n |-> 0, ok |-> FALSE, invoked |-> 0, exists |-> FALSE, path |-> <<>>,
              prev_ok |-> FALSE, prev_exists |-> FALSE, prev_path |-> <<>>,
              gap |-> FALSE, emptied |-> FALSE]

Queued(f) == [file |-> f, pc |-> "queued", result |-> NoResult, invoked |-> 0,
              failed |-> FALSE, hit |-> FALSE, log |-> <<>>]

\* the state of the disk and of a fresh integration before any build
BIdle ==
    /\ parallel_build = FALSE
    /\ memory = FALSE
    /\ options = [prepend_markdown |-> NoMd, move_imports_to_top |-> FALSE]
    /\ downloads = [exists |-> FALSE, nbs |-> {}]
    /\ py = [st \in Stems |-> Absent]
    /\ html = [st \in Stems |-> Absent]
    /\ manifest = NoManifest
    /\ cache = {}
    /\ bpc = "idle"
    /\ ipynb_files = <<>>
    /\ unit = <<>>
    /\ nextu = 1
    /\ converted_notebooks = <<>>
    /\ builds = 0
    /\ bret = [dispatched |-> FALSE, value |-> <<>>]
    /\ saved = <<>>
    /\ lastcall = [f \in Universe |-> NoCallYet]

-----------------------------------------------------------------------------
(* gallery_integration.py: configuration, detection and the launcher test. *)
(* Names are sequences of characters.                                      *)

GenGallery == "sphinx_gallery.gen_gallery"

\* the documents of test_launcher_injection_respects_gallery_dirs
Docs ==
    { AutoExamples \o Slash \o PlotFoo,
      AutoExamples \o Slash \o <<"s", "u", "b", "d", "i", "r">> \o Slash \o PlotBar,
      <<"i", "n", "d", "e", "x">>,
      <<"i", "n", "s", "t", "a", "l", "l", "a", "t", "i", "o", "n">>,
      <<"a", "p", "i", "/", "f", "u", "n", "c", "t", "i", "o", "n", "s">> }

\* app.config.extensions: absent, or a list of extension names
ExtensionValues ==
    { [set |-> FALSE, v |-> <<>>],
      [set |-> TRUE, v |-> <<>>],
      [set |-> TRUE, v |-> <<"sphinx.ext.autodoc", GenGallery>>] }

NoDirs == [kind |-> "list", v |-> <<>>]

\* app.config.sphinx_gallery_conf: absent, {}, a dict without gallery_dirs,
\* gallery_dirs a list of names (tests), gallery_dirs one name (_docs/conf.py)
ConfValues ==
    { [set |-> FALSE, keys |-> {}, gallery_dirs |-> NoDirs],
      [set |-> TRUE, keys |-> {}, gallery_dirs |-> NoDirs],
      [set |-> TRUE, keys |-> {"examples_dirs"}, gallery_dirs |-> NoDirs],
      [set |-> TRUE, keys |-> {"gallery_dirs"},
       gallery_dirs |-> [kind |-> "list", v |-> <<AutoExamples>>]],
      [set |-> TRUE, keys |-> {"examples_dirs", "gallery_dirs"},
       gallery_dirs |-> [kind |-> "str", v |-> <<AutoExamples>>]] }

Configs == [extensions : ExtensionValues, sphinx_gallery_conf : ConfValues]

\* the configuration of the mock_sphinx_app fixture
TestConfig ==
    [extensions |-> [set |-> TRUE, v |-> <<"sphinx.ext.autodoc", GenGallery>>],
     sphinx_gallery_conf |->
        [set |-> TRUE, keys |-> {"gallery_dirs"},
         gallery_dirs |-> [kind |-> "list", v |-> <<AutoExamples>>]]]

NoObs == [op |-> "none", doc |-> <<>>, ret |-> FALSE, raised |-> FALSE]

\* str.startswith
StartsWith(s, prefix) ==
    Len(prefix) <= Len(s) /\ SubSeq(s, 1, Len(prefix)) = prefix

\* getattr(self.app.config, 'sphinx_gallery_conf', {})
GalleryConf(cfg) ==
    IF cfg.sphinx_gallery_conf.set THEN cfg.sphinx_gallery_conf
    ELSE [set |-> TRUE, keys |-> {}, gallery_dirs |-> NoDirs]

\* a detection that does not look at sphinx_gallery_conf
DetectBodyNoConf(cfg) ==
    IF ~cfg.extensions.set
    THEN [ret |-> FALSE, detected |-> FALSE, exc |-> TRUE]
    ELSE IF \A i \in 1..Len(cfg.extensions.v) : cfg.extensions.v[i] # GenGallery
    THEN [ret |-> FALSE, detected |-> FALSE, exc |-> FALSE]
    ELSE [ret |-> TRUE, detected |-> TRUE, exc |-> FALSE]

\* the try block of detect_sphinx_gallery: what it returns, whether it sets
\* gallery_detected, whether an exception left the try block
DetectBody(cfg) ==
    IF ~cfg.extensions.set
    THEN [ret |-> FALSE, detected |-> FALSE, exc |-> TRUE]
    ELSE IF \A i \in 1..Len(cfg.extensions.v) : cfg.extensions.v[i] # GenGallery
    THEN [ret |-> FALSE, detected |-> FALSE, exc |-> FALSE]
    ELSE IF GalleryConf(cfg).keys = {}
    THEN [ret |-> FALSE, detected |-> FALSE, exc |-> FALSE]
    ELSE [ret |-> TRUE, detected |-> TRUE, exc |-> FALSE]

\* except Exception: return False
detect_sphinx_gallery(cfg) ==
    LET b == DetectBody(cfg)
    IN [ret |-> b.ret, detected |-> b.detected, raised |-> FALSE]

\* gallery_conf.get('gallery_dirs', [])
GalleryDirs(cfg) ==
    IF "gallery_dirs" \in GalleryConf(cfg).keys
    THEN GalleryConf(cfg).gallery_dirs
    ELSE NoDirs

\* what `for gallery_dir in gallery_dirs` yields: the names of a list, the
\* characters of a string
IterItems(gd) ==
    IF gd.kind = "str"
    THEN {<<gd.v[1][i]>> : i \in 1..Len(gd.v[1])}
    ELSE {gd.v[i] : i \in 1..Len(gd.v)}

should_inject_launcher(detected, cfg, docname) ==
    IF ~detected THEN FALSE
    ELSE \E gallery_dir \in IterItems(GalleryDirs(cfg)) : StartsWith(docname, gallery_dir)

DetectSphinxGallery ==
    LET r == detect_sphinx_gallery(config)
    IN /\ gallery_detected' = (IF r.detected THEN TRUE ELSE gallery_detected)
       /\ obs' = [op |-> "detect", doc |-> <<>>, ret |-> r.ret, raised |-> r.raised]
       /\ UNCHANGED <<config, gallery_notebooks_dir, marimo_gallery_dir, tvars, lvars, bvars>>

ShouldInjectLauncher ==
    /\ \E docname \in Docs :
        obs' = [op |-> "inject", doc |-> docname,
                ret |-> should_inject_launcher(gallery_detected, config, docname),
                raised |-> FALSE]
    /\ UNCHANGED <<config, gallery_detected, gallery_notebooks_dir, marimo_gallery_dir,
                   tvars, lvars, bvars>>

\* conf.py is edited (the tests assign app.config.extensions and
\* app.config.sphinx_gallery_conf between calls)
ChangeConfig ==
    /\ \E c \in Configs : c # config /\ config' = c
    /\ obs' = NoObs
    /\ UNCHANGED <<gallery_detected, gallery_notebooks_dir, marimo_gallery_dir,
                   tvars, lvars, bvars>>

-----------------------------------------------------------------------------
(* The page: the containers MarimoDirective.run emits and marimo-loader.js *)

MaxEvents == 4

\* str.replace(old, new) for a one-character old
RECURSIVE ReplaceChar(_, _, _)
ReplaceChar(s, old, new) ==
    IF Len(s) = 0 THEN <<>>
    ELSE (IF Head(s) = old THEN new ELSE <<Head(s)>>) \o ReplaceChar(Tail(s), old, new)

\* str.replace(".py", "")
RECURSIVE RemoveDotPy(_)
RemoveDotPy(s) ==
    IF Len(s) = 0 THEN <<>>
    ELSE IF Len(s) >= 3 /\ SubSeq(s, 1, 3) = <<".", "p", "y">>
         THEN RemoveDotPy(SubSeq(s, 4, Len(s)))
         ELSE <<Head(s)>> \o RemoveDotPy(Tail(s))

\* notebook_name of MarimoDirective.run
NotebookName(notebook_path) == RemoveDotPy(ReplaceChar(notebook_path, "/", <<"_">>))

\* the marimo directives of one page, in document order: the argument of each
Directives ==
    << <<"a", ".", "p", "y">>, <<"d", "/", "b", ".", "p", "y">>, <<"a", ".", "p", "y">> >>

\* the containers of the page; new_serialno tells apart two of the same notebook
Containers == 1..Len(Directives)

\* the height the directive writes into the iframe's style, in px
DefaultHeight == 600

\* the raw html node of MarimoDirective.run: a div holding exactly one iframe
DirectiveHtml(serialno) ==
    [notebook |-> NotebookName(Directives[serialno]),
     iframe   |-> TRUE,
     height   |-> DefaultHeight,
     loading  |-> 0,      \* div.marimo-loading children of the container
     errors   |-> 0,      \* div.marimo-error children of the container
     handlers |-> 0,      \* (load, error) listener pairs on the iframe
     resizers |-> 0,      \* window message listeners bound to the iframe
     inits    |-> 0]      \* marimo-init messages posted into the iframe

\* the windows a message event may come from: an iframe's contentWindow, or another
OtherWindow == 0
Windows == Containers \cup {OtherWindow}
MessageTypes == {"marimo-resize", "other"}
Heights == {300, 450}

NoEvent == [op |-> "none", c |-> 0, type |-> "none", height |-> 0, n |-> 0]

\* the page as parsed, before any script ran
LIdle ==
    /\ loadedNotebooks = {}
    /\ dom = [c \in Containers |-> DirectiveHtml(c)]
    /\ event = NoEvent

\* the state of a fresh GalleryMarimoIntegration (__init__)
GIdle ==
    /\ config = TestConfig
    /\ gallery_detected = FALSE
    /\ gallery_notebooks_dir = None
    /\ marimo_gallery_dir = None
    /\ obs = NoObs
    /\ BIdle

TIdle ==
    /\ orig = <<>>
    /\ text = <<>>
    /\ src = <<>>
    /\ last = "input"
    /\ moves = 0
    /\ parsed = NoParse
    /\ files = [p \in Paths |-> NoFile]
    /\ targ = NoCall

GInit ==
    /\ config \in Configs
    /\ gallery_detected = FALSE
    /\ gallery_notebooks_dir = None
    /\ marimo_gallery_dir = None
    /\ obs = NoObs
    /\ TIdle
    /\ BIdle
    /\ LIdle

GNext == DetectSphinxGallery \/ ShouldInjectLauncher \/ ChangeConfig

SpecG == GInit /\ [][GNext]_vars

-----------------------------------------------------------------------------
(* gallery_integration.py: the build *)

\* a setup that does not look at gallery_detected
SetupUngated ==
    /\ bpc = "idle"
    /\ gallery_notebooks_dir' = "_downloads"
    /\ marimo_gallery_dir' = "gallery"
    /\ UNCHANGED <<config, gallery_detected, obs, tvars, lvars, bvars>>

SetupGalleryDirectories ==
    /\ bpc = "idle"
    /\ IF ~gallery_detected
       THEN UNCHANGED <<gallery_notebooks_dir, marimo_gallery_dir>>
       ELSE /\ gallery_notebooks_dir' = "_downloads"
            /\ marimo_gallery_dir' = "gallery"
    /\ UNCHANGED <<config, gallery_detected, obs, tvars, lvars, bvars>>

\* convert_gallery_notebooks up to the dispatch: the two early returns, or the
\* list of files and one queued unit per file
ConvertGalleryNotebooks ==
    /\ bpc = "idle"
    /\ builds < MaxBuilds
    /\ builds' = builds + 1
    /\ IF ~gallery_detected \/ gallery_notebooks_dir = None \/ ~downloads.exists
       THEN /\ bret' = [dispatched |-> FALSE, value |-> <<>>]
            /\ obs' = [op |-> "convert", doc |-> <<>>, raised |-> FALSE,
                       ret |-> gallery_detected /\ gallery_notebooks_dir # None]
            /\ UNCHANGED <<bpc, ipynb_files, unit, nextu, converted_notebooks>>
       ELSE /\ \E o \in Orders(downloads.nbs) :
                /\ ipynb_files' = o
                /\ unit' = [i \in 1..Len(o) |-> Queued(o[i])]
            /\ nextu' = 1
            /\ converted_notebooks' = <<>>
            /\ bpc' = "running"
            /\ obs' = NoObs
            /\ UNCHANGED bret
    /\ UNCHANGED <<config, gallery_detected, gallery_notebooks_dir, marimo_gallery_dir,
                   parallel_build, memory, options, downloads, py, html, manifest,
                   cache, saved, lastcall, tvars, lvars>>

\* a dispatcher that runs every unit at once in either mode
MayRunAny(i) ==
    /\ bpc = "running"
    /\ i \in 1..Len(unit)

\* unit i may take a step: in parallel mode every dispatched unit, in
\* sequential mode the unit the for loop is at
MayRun(i) ==
    /\ bpc = "running"
    /\ i \in 1..Len(unit)
    /\ (parallel_build /\ Len(ipynb_files) > 0) \/ i = nextu

\* _convert_notebook_standalone returns (ipynb_file, result)
Return(i, result, invoked, failed, hit, html2, log) ==
    LET f == unit[i].file
        old == lastcall[f]
    IN /\ unit' = [unit EXCEPT ![i] = [file |-> f, pc |-> "done", result |-> result,
                                      invoked |-> invoked, failed |-> failed, hit |-> hit,
                                      log |-> log]]
       /\ lastcall' = [lastcall EXCEPT ![f] =
              [n |-> old.n + 1, ok |-> result.ok, invoked |-> invoked,
               exists |-> result.ok /\ html2[f.stem].present, path |-> result.stem,
               prev_ok |-> old.ok, prev_exists |-> old.exists, prev_path |-> old.path,
               gap |-> old.emptied \/ (hit /\ old.gap), emptied |-> FALSE]]

\* a worker that transforms whether or not an option is set
AfterConvertAlways(opts) == "transform"

\* if prepend_markdown or move_imports_to_top: the step that follows convert
AfterConvert(opts) ==
    IF opts.prepend_markdown \notin {NoMd, <<>>} \/ opts.move_imports_to_top
    THEN "transform" ELSE "export"

\* the cache lookup; on a miss the stale intermediate file is unlinked
WorkerStart(i) ==
    /\ MayRun(i)
    /\ unit[i].pc = "queued"
    /\ LET f == unit[i].file
       IN IF memory /\ CacheHit(cache, CacheKey(f, options))
          THEN /\ Return(i, [ok |-> TRUE, stem |-> f.stem], 0, FALSE, TRUE, html,
                         unit[i].log)
               /\ UNCHANGED py
          ELSE /\ py' = [py EXCEPT ![f.stem] = Absent]
               /\ unit' = [unit EXCEPT ![i].pc = "convert",
                                        ![i].log = Append(@, "unlink")]
               /\ UNCHANGED lastcall
    /\ UNCHANGED <<cvars, parallel_build, memory, options, downloads, html, manifest,
                   cache, bpc, ipynb_files, nextu, converted_notebooks, builds, bret,
                   saved, tvars, lvars>>

\* marimo convert <ipynb> -o <py>: exit status 0 or not
WorkerConvert(i) ==
    /\ MayRun(i)
    /\ unit[i].pc = "convert"
    /\ LET f == unit[i].file
       IN \E exit_ok \in BOOLEAN :
            IF exit_ok
            THEN /\ py' = [py EXCEPT ![f.stem] =
                              [present |-> TRUE, src |-> f, transformed |-> FALSE]]
                 /\ unit' = [unit EXCEPT
                       ![i].pc = AfterConvert(options),
                       ![i].invoked = 1,
                       ![i].log = Append(@, "convert")]
                 /\ UNCHANGED <<lastcall, cache>>
            ELSE /\ Return(i, NoResult, 1, TRUE, FALSE, html,
                           Append(unit[i].log, "convert failed"))
                 /\ cache' = IF memory
                             THEN CacheStore(cache, CacheKey(f, options), FALSE)
                             ELSE cache
                 /\ UNCHANGED py
    /\ UNCHANGED <<cvars, parallel_build, memory, options, downloads, html, manifest,
                   bpc, ipynb_files, nextu, converted_notebooks, builds, bret,
                   saved, tvars, lvars>>

\* transform_notebook(marimo_py_file, output_path=marimo_py_file, ...)
WorkerTransform(i) ==
    /\ MayRun(i)
    /\ unit[i].pc = "transform"
    /\ LET f == unit[i].file
       IN IF py[f.stem].present
          THEN /\ py' = [py EXCEPT ![f.stem].transformed = TRUE]
               /\ unit' = [unit EXCEPT ![i].pc = "export",
                                        ![i].log = Append(@, "transform")]
               /\ UNCHANGED <<lastcall, cache>>
          ELSE /\ Return(i, NoResult, unit[i].invoked, FALSE, FALSE, html,
                         Append(unit[i].log, "transform failed"))
               /\ cache' = IF memory
                           THEN CacheStore(cache, CacheKey(f, options), FALSE)
                           ELSE cache
               /\ UNCHANGED py
    /\ UNCHANGED <<cvars, parallel_build, memory, options, downloads, html, manifest,
                   bpc, ipynb_files, nextu, converted_notebooks, builds, bret,
                   saved, tvars, lvars>>

\* marimo export html-wasm --mode edit <py> -o <html>: exit status 0 or not;
\* on success the result is returned and, with a cache, stored
WorkerExport(i) ==
    /\ MayRun(i)
    /\ unit[i].pc = "export"
    /\ LET f == unit[i].file
       IN \E exit_ok \in BOOLEAN :
            IF exit_ok /\ py[f.stem].present
            THEN LET html2 == [html EXCEPT ![f.stem] = py[f.stem]]
                 IN /\ html' = html2
                    /\ cache' = IF memory
                                THEN CacheStore(cache, CacheKey(f, options), TRUE)
                                ELSE cache
                    /\ Return(i, [ok |-> TRUE, stem |-> f.stem], unit[i].invoked + 1,
                              FALSE, FALSE, html2, Append(unit[i].log, "export"))
            ELSE /\ Return(i, NoResult, unit[i].invoked + 1, TRUE, FALSE, html,
                           Append(unit[i].log, "export failed"))
                 /\ cache' = IF memory
                             THEN CacheStore(cache, CacheKey(f, options), FALSE)
                             ELSE cache
                 /\ UNCHANGED html
    /\ UNCHANGED <<cvars, parallel_build, memory, options, downloads, py, manifest,
                   bpc, ipynb_files, nextu, converted_notebooks, builds, bret,
                   saved, tvars, lvars>>

\* the loop body: the next (ipynb_file, converted_path) pair is taken and a
\* converted path is entered under the file's stem
Collect ==
    /\ bpc = "running"
    /\ nextu <= Len(unit)
    /\ unit[nextu].pc = "done"
    /\ converted_notebooks' =
          IF unit[nextu].result.ok
          THEN DictSet(converted_notebooks, unit[nextu].file.stem,
                       RelPathStr(unit[nextu].result.stem))
          ELSE converted_notebooks
    /\ nextu' = nextu + 1
    /\ UNCHANGED <<cvars, parallel_build, memory, options, downloads, py, html, manifest,
                   cache, bpc, ipynb_files, unit, builds, bret, saved, lastcall, tvars, lvars>>

\* after the loop: _save_gallery_manifest(converted_notebooks), return
SaveAndReturn ==
    /\ bpc = "running"
    /\ nextu > Len(unit)
    /\ manifest' = ManifestJson(converted_notebooks)
    /\ saved' = converted_notebooks
    /\ bret' = [dispatched |-> TRUE, value |-> converted_notebooks]
    /\ bpc' = "idle"
    /\ obs' = [op |-> "convert", doc |-> <<>>, ret |-> TRUE, raised |-> FALSE]
    /\ UNCHANGED <<config, gallery_detected, gallery_notebooks_dir, marimo_gallery_dir,
                   parallel_build, memory, options, downloads, py, html, cache,
                   ipynb_files, unit, nextu, converted_notebooks, builds, lastcall, tvars, lvars>>

\* between two builds the output directory is emptied; the cache is kept
EmptyOutputDir ==
    /\ bpc = "idle"
    /\ \E st \in Stems : html[st].present
    /\ py' = [st \in Stems |-> Absent]
    /\ html' = [st \in Stems |-> Absent]
    /\ manifest' = NoManifest
    /\ lastcall' = [f \in Universe |-> [lastcall[f] EXCEPT !.emptied = TRUE]]
    /\ obs' = NoObs
    /\ UNCHANGED <<config, gallery_detected, gallery_notebooks_dir, marimo_gallery_dir,
                   parallel_build, memory, options, downloads, cache, bpc,
                   ipynb_files, unit, nextu, converted_notebooks, builds, bret,
                   saved, tvars, lvars>>

\* between two builds the gallery stops producing notebooks: the downloads
\* directory is removed, or left without any .ipynb file
RemoveNotebooks ==
    /\ bpc = "idle"
    /\ downloads.nbs # {}
    /\ \E e \in BOOLEAN : downloads' = [exists |-> e, nbs |-> {}]
    /\ UNCHANGED <<cvars, parallel_build, memory, options, py, html, manifest, cache,
                   bpc, ipynb_files, unit, nextu, converted_notebooks, builds, bret,
                   saved, lastcall, tvars, lvars>>

\* a fresh integration over a project whose gallery has run
BInit ==
    /\ config = TestConfig
    /\ gallery_detected = FALSE
    /\ gallery_notebooks_dir = None
    /\ marimo_gallery_dir = None
    /\ obs = NoObs
    /\ parallel_build \in BOOLEAN
    /\ memory \in BOOLEAN
    /\ options \in OptionValues
    /\ downloads \in {[exists |-> FALSE, nbs |-> {}]}
                     \cup {[exists |-> TRUE, nbs |-> S] :
                              S \in {T \in SUBSET Universe : Cardinality(T) <= MaxFiles}}
    /\ py = [st \in Stems |-> Absent]
    /\ html = [st \in Stems |-> Absent]
    /\ manifest = NoManifest
    /\ cache = {}
    /\ bpc = "idle"
    /\ ipynb_files = <<>>
    /\ unit = <<>>
    /\ nextu = 1
    /\ converted_notebooks = <<>>
    /\ builds = 0
    /\ bret = [dispatched |-> FALSE, value |-> <<>>]
    /\ saved = <<>>
    /\ lastcall = [f \in Universe |-> NoCallYet]
    /\ TIdle
    /\ LIdle

BNext ==
    \/ DetectSphinxGallery
    \/ SetupGalleryDirectories
    \/ ConvertGalleryNotebooks
    \/ \E i \in 1..Cardinality(Universe) :
          WorkerStart(i) \/ WorkerConvert(i) \/ WorkerTransform(i) \/ WorkerExport(i)
    \/ Collect
    \/ SaveAndReturn
    \/ EmptyOutputDir
    \/ RemoveNotebooks

SpecB == BInit /\ [][BNext]_vars

-----------------------------------------------------------------------------
(* Claims about the build, checked under SpecB *)

\* a build that dispatched its notebooks has returned and its manifest is on disk
BuildReturned == bpc = "idle" /\ bret.dispatched /\ manifest # NoManifest

\* the units of the last batch whose external convert or export command failed
FailedUnits == {i \in 1..Len(unit) : unit[i].failed}

SavedDoc == JsonLoad(manifest)

\* C6: failure isolation in convert_gallery_notebooks: of a batch of N
\* notebooks found under the downloads directory of which F fail in the
\* external convert or export command, the saved manifest has exactly N-F
\* entries with total_count = N-F, each succeeded notebook is present and each
\* failed one absent, in parallel and in sequential mode.
C6_FailureIsolation ==
    BuildReturned =>
        LET nb == DictGet(SavedDoc, <<"gallery_notebooks">>)
            N == Len(ipynb_files)
            F == Cardinality(FailedUnits)
        IN /\ Len(nb) = N - F
           /\ DictGet(SavedDoc, <<"total_count">>) = N - F
           /\ \A i \in 1..Len(unit) :
                 IF i \in FailedUnits
                 THEN ~DictHas(nb, unit[i].file.stem)
                 ELSE DictHas(nb, unit[i].file.stem)

\* the entries of the manifest on disk, none when there is no manifest
ManifestEntries ==
    IF manifest = NoManifest THEN <<>>
    ELSE DictGet(SavedDoc, <<"gallery_notebooks">>)

\* the latest convert_gallery_notebooks call was made with the gallery
\* detected and the directories prepared, and has returned
LatestBuildReturned == bpc = "idle" /\ obs.op = "convert" /\ obs.ret

\* C12: the gallery manifest is overwritten wholesale on every build: once
\* convert_gallery_notebooks of the latest build has returned (gallery
\* detected, directories prepared), the manifest holds exactly the mapping
\* that build converted, with no entry surviving from an earlier build, also
\* when the build found the notebooks directory missing.
C12_ManifestOverwritten ==
    LatestBuildReturned => ManifestEntries = bret.value

\* C15: in parallel mode, for any set of notebooks discovered recursively
\* under the downloads directory and any interleaving of their units, no unit
\* deletes or overwrites a file that another unit wrote or is about to export,
\* so every successful unit's artifact is the export of its own source.
C15_OwnArtifact ==
    (parallel_build /\ bpc = "running") =>
        \A i \in 1..Len(unit) :
            (unit[i].pc = "done" /\ unit[i].result.ok /\ ~unit[i].hit) =>
                /\ html[unit[i].file.stem].present
                /\ html[unit[i].file.stem].src = unit[i].file

\* the steps a unit has taken follow the order of _convert_notebook_impl
StepOrder(u) ==
    \A k \in 1..Len(u.log) :
        /\ u.log[k] = "unlink" => k = 1
        /\ u.log[k] \in {"convert", "convert failed"} => k = 2 /\ u.log[1] = "unlink"
        /\ u.log[k] \in {"transform", "transform failed"} =>
              /\ u.log[k - 1] = "convert"
              /\ options.prepend_markdown \notin {NoMd, <<>>} \/ options.move_imports_to_top
        /\ u.log[k] \in {"export", "export failed"} =>
              \/ u.log[k - 1] = "transform"
              \/ /\ u.log[k - 1] = "convert"
                 /\ options.prepend_markdown \in {NoMd, <<>>}
                 /\ ~options.move_imports_to_top
        /\ u.log[k] \in {"convert failed", "transform failed", "export failed"} =>
              /\ k = Len(u.log)
              /\ u.pc = "done"
              /\ ~u.result.ok

\* C16: any stale intermediate .py file is deleted before the convert command
\* runs; the transform runs only after convert succeeded and only if
\* prepend_markdown or move_imports_to_top is set; the export command runs
\* only after convert (and the transform, if any) succeeded; if convert exits
\* non-zero, export is never invoked; any non-zero exit makes
\* _convert_notebook_standalone return (source_file, none).
C16_WorkerStepOrder ==
    \A i \in 1..Len(unit) :
        /\ StepOrder(unit[i])
        /\ (unit[i].pc = "convert" /\ bpc = "running" /\ ~parallel_build) =>
              ~py[unit[i].file.stem].present
        /\ unit[i].failed => unit[i].pc = "done" /\ unit[i].result = NoResult
        /\ (unit[i].pc = "done" /\ unit[i].result.ok /\ ~unit[i].hit) =>
              unit[i].log[Len(unit[i].log)] = "export"

C16_Witness ==
    \E i, j \in 1..Len(unit) :
        /\ unit[i].log = <<"unlink", "convert", "transform", "export">>
        /\ unit[j].log = <<"unlink", "convert failed">>
        /\ unit[j].result = NoResult

\* C17: for N submitted notebooks exactly N (source_file, result) pairs are
\* produced, one per submitted notebook, whatever the completion order and
\* whichever notebooks fail; in sequential mode the pairs are produced
\* strictly in submission order.
C17_Dispatcher ==
    /\ bpc = "running" =>
          /\ Len(unit) = Len(ipynb_files)
          /\ nextu <= Len(unit) + 1
          /\ \A i \in 1..Len(unit) :
                /\ unit[i].file = ipynb_files[i]
                /\ i < nextu => unit[i].pc = "done"
    /\ (LatestBuildReturned /\ bret.dispatched) =>
          /\ Len(unit) = Len(ipynb_files)
          /\ nextu = Len(ipynb_files) + 1
          /\ \A i \in 1..Len(unit) :
                unit[i].file = ipynb_files[i] /\ unit[i].pc = "done"
    /\ (bpc = "running" /\ ~parallel_build) =>
          \A i, j \in 1..Len(unit) :
              (i < j /\ unit[j].pc # "queued") => (unit[i].pc = "done" /\ i < nextu)

C17_Witness ==
    /\ LatestBuildReturned
    /\ bret.dispatched
    /\ Len(ipynb_files) = 2
    /\ unit[1].failed
    /\ unit[2].result.ok
    /\ nextu = 3

\* no path is set unless detection has succeeded, and conversions are in
\* flight only with detection, prepared directories and a notebooks directory
GatingInv ==
    /\ (gallery_notebooks_dir # None \/ marimo_gallery_dir # None) => gallery_detected
    /\ bpc = "running" =>
          gallery_detected /\ gallery_notebooks_dir # None /\ downloads.exists

\* a convert_gallery_notebooks call made without detection, prepared
\* directories or a notebooks directory returns {} and starts nothing
GatedCall ==
    (/\ builds' = builds + 1
     /\ ~gallery_detected \/ gallery_notebooks_dir = None \/ ~downloads.exists)
    => /\ bpc' = "idle"
       /\ bret' = [dispatched |-> FALSE, value |-> <<>>]
       /\ ~obs'.raised
       /\ UNCHANGED <<unit, lastcall, py, html, manifest, cache>>

\* the manifest is written only when every conversion of the build is done
SaveAfterAll ==
    (bpc = "running" /\ manifest' # manifest)
    => \A i \in 1..Len(unit) : unit[i].pc = "done" /\ i < nextu

\* C18: setup_gallery_directories creates no directory and sets no path unless
\* detection has succeeded; convert_gallery_notebooks dispatches no conversion
\* and returns an empty mapping, without raising, when detection has not
\* succeeded, when directories were not prepared, or when the notebooks
\* directory does not exist; when it does dispatch, the manifest is saved only
\* after every conversion of that build has completed.
C18_Gating == []GatingInv /\ [][GatedCall /\ SaveAfterAll]_vars

C18_Witness ==
    /\ builds = 2
    /\ obs.op = "convert"
    /\ ~bret.dispatched
    /\ gallery_detected
    /\ gallery_notebooks_dir # None
    /\ ~downloads.exists
    /\ manifest # NoManifest

\* C22: after any sequence of builds that share a persistent cache directory,
\* every non-none result of the conversion worker and every path recorded in
\* the gallery manifest names an artifact file that exists in the output
\* directory at that moment, also when the output directory was emptied
\* between two builds while the cache was kept.
C22_ResultsExist ==
    /\ \A f \in Universe :
          (lastcall[f].n > 0 /\ lastcall[f].ok) => lastcall[f].exists
    /\ LatestBuildReturned =>
          \A k \in 1..Len(ManifestEntries) :
              /\ ManifestEntries[k][2] = RelPathStr(ManifestEntries[k][1])
              /\ html[ManifestEntries[k][1]].present

\* C24: a failed conversion is never memoized: when a cached conversion call
\* fails the cache stores nothing for its arguments, so a later call with the
\* same arguments invokes the external commands again and can succeed; only
\* successful results are ever returned from the cache.
C24_FailureNotMemoized ==
    /\ \A f \in Universe :
          /\ (memory /\ lastcall[f].n > 0 /\ ~lastcall[f].ok) =>
                CacheKey(f, options) \notin cache
          /\ (lastcall[f].n >= 2 /\ ~lastcall[f].prev_ok) => lastcall[f].invoked > 0
    /\ \A i \in 1..Len(unit) :
          unit[i].hit => (unit[i].result.ok /\ unit[i].invoked = 0)

C24_Witness ==
    \E f \in Universe :
        /\ memory
        /\ lastcall[f].n = 2
        /\ ~lastcall[f].prev_ok
        /\ lastcall[f].ok
        /\ lastcall[f].invoked = 2
        /\ CacheKey(f, options) \in cache

\* the second of two successive calls with identical arguments, the first of
\* which succeeded with the cache on, the output directory not having been
\* emptied since the artifact was written
SecondCall(f) ==
    /\ memory
    /\ lastcall[f].n >= 2
    /\ lastcall[f].prev_ok
    /\ ~lastcall[f].gap

\* C7: for two successive conversion calls with identical arguments against a
\* cache populated by the first successful call, the second call does not
\* invoke the external convert or export command, returns the same path as the
\* first, and both calls return a path to an artifact file that exists.
C7_CacheHitSkipsCommands ==
    \A f \in Universe :
        SecondCall(f) =>
            /\ lastcall[f].invoked = 0
            /\ lastcall[f].ok
            /\ lastcall[f].path = lastcall[f].prev_path
            /\ lastcall[f].exists
            /\ lastcall[f].prev_exists

C7_Witness ==
    \E f \in Universe :
        SecondCall(f) /\ lastcall[f].invoked = 0 /\ lastcall[f].exists

\* C8: for any mapping of K name-to-path entries (K >= 0),
\* _save_gallery_manifest followed by reading gallery_manifest.json back yields
\* a document with total_count = K and gallery_notebooks equal to the mapping
\* entry for entry.
C8_ManifestRoundTrip ==
    manifest # NoManifest =>
        /\ DictGet(SavedDoc, <<"total_count">>) = Len(saved)
        /\ DictGet(SavedDoc, <<"gallery_notebooks">>) = saved

C8_Witness ==
    /\ manifest # NoManifest
    /\ Len(saved) = 2
    /\ DictGet(SavedDoc, <<"total_count">>) = 2
    /\ DictGet(DictGet(SavedDoc, <<"gallery_notebooks">>), PlotBar) = RelPathStr(PlotBar)

-----------------------------------------------------------------------------
(* gallery_integration.py: get_notebook_info and the manifest on disk *)

RECURSIVE LastSlash(_, _)
\* index of the last "/" of s at or before i, 0 if there is none
LastSlash(s, i) ==
    IF i = 0 THEN 0
    ELSE IF s[i] = Slash[1] THEN i
    ELSE LastSlash(s, i - 1)

\* Path(docname).name
BaseName(docname) == SubSeq(docname, LastSlash(docname, Len(docname)) + 1, Len(docname))

\* a launcher URL without the static prefix
NotebookUrlBare(path) == path

\* f"/_static/{manifest['gallery_notebooks'][notebook_name]}"
NotebookUrl(path) == <<"/", "_", "s", "t", "a", "t", "i", "c", "/">> \o path

\* the mappings the tests hand to _save_gallery_manifest
Mappings ==
    { <<>>,
      <<<<PlotFoo, RelPathStr(PlotFoo)>>>>,
      <<<<PlotFoo, RelPathStr(PlotFoo)>>, <<PlotBar, RelPathStr(PlotBar)>>>> }

\* a manifest file that exists but cannot be opened
Unreadable == <<[k |-> "unreadable", s |-> <<>>]>>

\* manifest files no _save_gallery_manifest call wrote: an empty file, a
\* truncated write, an empty object, a bare number, an unreadable file
BadManifests ==
    { <<>>,
      SubSeq(ManifestJson(<<<<PlotFoo, RelPathStr(PlotFoo)>>>>), 1, 8),
      <<Punct("{"), Punct("}")>>,
      <<JNum(3)>>,
      Unreadable }

RECURSIVE Closes(_, _, _)
\* the index of the "}" that closes the object opened before token i at
\* nesting depth d, 0 if the text ends first
Closes(toks, i, d) ==
    IF i > Len(toks) THEN 0
    ELSE IF toks[i] = Punct("{") THEN Closes(toks, i + 1, d + 1)
    ELSE IF toks[i] = Punct("}")
         THEN (IF d = 1 THEN i ELSE Closes(toks, i + 1, d - 1))
    ELSE Closes(toks, i + 1, d)

\* json.load does not raise JSONDecodeError on this text
JsonLoadable(toks) ==
    /\ Len(toks) > 0
    /\ \/ Len(toks) = 1 /\ toks[1].k \in {"num", "str"}
       \/ toks[1] = Punct("{") /\ Closes(toks, 2, 1) = Len(toks)

NoInfo == [some |-> FALSE, name |-> <<>>, url |-> <<>>]

\* get_notebook_info: the record it returns, or NoInfo for None; every
\* exception of the read is caught by the except clause
get_notebook_info(detected, dir, cfg, file, docname) ==
    IF dir = None \/ ~should_inject_launcher(detected, cfg, docname) THEN NoInfo
    ELSE IF file = NoManifest THEN NoInfo
    ELSE IF file = Unreadable \/ ~JsonLoadable(file) THEN NoInfo
    ELSE IF file[1] # Punct("{") THEN NoInfo
    ELSE LET notebook_name == BaseName(docname)
             doc == JsonLoad(file)
             nbs == IF DictHas(doc, <<"gallery_notebooks">>)
                    THEN DictGet(doc, <<"gallery_notebooks">>) ELSE <<>>
         IN IF DictHas(nbs, notebook_name)
            THEN [some |-> TRUE, name |-> notebook_name,
                  url |-> NotebookUrl(DictGet(nbs, notebook_name))]
            ELSE NoInfo

GetNotebookInfo ==
    /\ \E docname \in Docs :
        LET info == get_notebook_info(gallery_detected, marimo_gallery_dir, config,
                                      manifest, docname)
        IN obs' = [op |-> "info", doc |-> docname, ret |-> info.some, raised |-> FALSE,
                   name |-> info.name, url |-> info.url]
    /\ UNCHANGED <<config, gallery_detected, gallery_notebooks_dir, marimo_gallery_dir,
                   tvars, lvars, bvars>>

\* _save_gallery_manifest called on its own, as the tests do; without
\* marimo_gallery_dir the path expression raises
SaveGalleryManifest ==
    /\ bpc = "idle"
    /\ IF marimo_gallery_dir = None
       THEN /\ obs' = [op |-> "save", doc |-> <<>>, ret |-> FALSE, raised |-> TRUE]
            /\ UNCHANGED <<manifest, saved>>
       ELSE /\ \E m \in Mappings :
                /\ manifest' = ManifestJson(m)
                /\ saved' = m
            /\ obs' = [op |-> "save", doc |-> <<>>, ret |-> FALSE, raised |-> FALSE]
    /\ UNCHANGED <<config, gallery_detected, gallery_notebooks_dir, marimo_gallery_dir,
                   parallel_build, memory, options, downloads, py, html, cache, bpc,
                   ipynb_files, unit, nextu, converted_notebooks, builds, bret,
                   lastcall, tvars, lvars>>

\* something other than the extension deletes or rewrites the manifest file
TamperManifest ==
    /\ marimo_gallery_dir # None
    /\ \E m \in BadManifests \cup {NoManifest} : m # manifest /\ manifest' = m
    /\ obs' = NoObs
    /\ UNCHANGED <<config, gallery_detected, gallery_notebooks_dir, marimo_gallery_dir,
                   parallel_build, memory, options, downloads, py, html, cache, bpc,
                   ipynb_files, unit, nextu, converted_notebooks, builds, bret,
                   saved, lastcall, tvars, lvars>>

INext ==
    \/ DetectSphinxGallery
    \/ ChangeConfig
    \/ SetupGalleryDirectories
    \/ SaveGalleryManifest
    \/ TamperManifest
    \/ GetNotebookInfo

SpecI == GInit /\ [][INext]_vars

\* C11: get_notebook_info(doc) returns a {notebook_name, notebook_url} record
\* only if should_inject_launcher(doc) holds and doc's base filename is a key
\* of the manifest currently on disk, with notebook_url = '/_static/' + that
\* key's manifest path; it returns none, without raising, when the gallery is
\* not detected or the manifest is missing, unreadable or malformed.
C11_NotebookInfo ==
    obs.op = "info" =>
        /\ ~obs.raised
        /\ obs.ret =>
              /\ should_inject_launcher(gallery_detected, config, obs.doc)
              /\ manifest = ManifestJson(saved)
              /\ \E i \in 1..Len(saved) :
                    /\ saved[i][1] = obs.name
                    /\ obs.url = <<"/", "_", "s", "t", "a", "t", "i", "c", "/">> \o saved[i][2]
              /\ \E k \in 0..Len(obs.doc) :
                    /\ k = 0 \/ obs.doc[k] = "/"
                    /\ obs.name = SubSeq(obs.doc, k + 1, Len(obs.doc))
                    /\ \A j \in 1..Len(obs.name) : obs.name[j] # "/"
        /\ (\/ ~gallery_detected
            \/ manifest \in BadManifests
            \/ manifest = NoManifest) => ~obs.ret

C11_Witness ==
    /\ obs.op = "info"
    /\ obs.ret
    /\ obs.name = PlotBar
    /\ obs.url = <<"/", "_", "s", "t", "a", "t", "i", "c", "/">> \o RelPathStr(PlotBar)

-----------------------------------------------------------------------------
(* The transformer as a state machine *)

TInit ==
    /\ text \in Inputs
    /\ orig = text
    /\ src = text
    /\ last = "input"
    /\ moves = 0
    /\ parsed = NoParse
    /\ files = [p \in Paths |-> IF p = "nb.py" THEN text ELSE NoFile]
    /\ targ = NoCall
    /\ GIdle
    /\ LIdle

ParseNotebook ==
    /\ parsed = NoParse
    /\ parsed' = _parse_notebook(text)
    /\ UNCHANGED <<orig, text, src, last, moves, files, targ, gvars, lvars>>

PrependMarkdown ==
    /\ last = "input"
    /\ \E md \in MdTexts :
        /\ text' = prepend_markdown(text, md)
        /\ targ' = [called |-> FALSE, md |-> md]
    /\ src' = text
    /\ last' = "prepend"
    /\ parsed' = NoParse
    /\ UNCHANGED <<orig, moves, files, gvars, lvars>>

MoveImportsToTop ==
    /\ last \in {"input", "move"}
    /\ moves < MaxMoves
    /\ text' = move_imports_to_top(text)
    /\ src' = text
    /\ last' = "move"
    /\ moves' = moves + 1
    /\ parsed' = NoParse
    /\ targ' = [called |-> FALSE, cells |-> MovedCells(text)]
    /\ UNCHANGED <<orig, files, gvars, lvars>>

TransformNotebook ==
    /\ last = "input"
    /\ \E notebook_path \in {"nb.py"}, output_path \in {"out.py", "nb.py", None},
          pm \in MdTexts \cup {NoMd, <<>>}, mv \in BOOLEAN :
        LET content == Transformed(files[notebook_path], pm, mv)
            target_path == IF output_path # None THEN output_path ELSE notebook_path
        IN /\ files' = [files EXCEPT ![target_path] = content]
           /\ targ' = [called |-> TRUE, notebook_path |-> notebook_path,
                       output_path |-> output_path, pm |-> pm, mv |-> mv,
                       ret |-> target_path]
           /\ text' = content
    /\ src' = text
    /\ last' = "transform"
    /\ parsed' = NoParse
    /\ UNCHANGED <<orig, moves, gvars, lvars>>

TNext == ParseNotebook \/ PrependMarkdown \/ MoveImportsToTop \/ TransformNotebook

SpecT == TInit /\ [][TNext]_vars

-----------------------------------------------------------------------------
(* Claims about the transformer, checked under SpecT *)

\* some original cell holds a usable import marimo as mo
ReusesImport(cells) == \E k \in 1..Len(cells) : HasImportMo(cells[k])

\* where the original cells begin in the output of prepend_markdown
OriginalStart(out, p0) == Len(out) - Len(Concat(p0.cells)) - Len(p0.postamble) + 1

\* C1: after prepend_markdown on a text that parses into preamble P, N cells
\* and postamble Q, parsing the output gives P and Q unchanged and N+1 cells
\* (an import cell was reused) or N+2 cells (otherwise), and the markdown
\* lies strictly before all original cell content.  Stated for the
\* well-formed notebooks among the inputs.
C1_PrependReparse ==
    (last = "prepend" /\ parsed # NoParse /\ orig \in Notebooks) =>
        LET p0 == _parse_notebook(src)
            N == Len(p0.cells)
        IN /\ parsed.preamble = p0.preamble
           /\ parsed.postamble = p0.postamble
           /\ Len(parsed.cells) = IF ReusesImport(p0.cells) THEN N + 1 ELSE N + 2
           /\ Find(text, "W") > 0
           /\ Find(text, "W") < OriginalStart(text, p0)

\* C2: a second move_imports_to_top changes nothing: f(f(x)) = f(x), for
\* every well-formed notebook x, with or without an if __name__ block.
C2_MoveIdempotent ==
    (last = "move" /\ moves >= 2 /\ orig \in Notebooks) => text = src

\* the cells that pass the import test form a prefix of the list
ImportsArePrefix(cells) ==
    \A i, j \in 1..Len(cells) :
        (i < j /\ HasImportMarimo(cells[j])) => HasImportMarimo(cells[i])

\* C3: move_imports_to_top returns its input unchanged when the import cells
\* already form a prefix of the cell list, for every well-formed notebook,
\* with or without an if __name__ block.
C3_NoopWhenSorted ==
    (/\ last = "move"
     /\ moves = 1
     /\ orig \in Notebooks
     /\ ImportsArePrefix(_parse_notebook(src).cells)) => text = src

\* C14: transform_notebook writes the transformed text to output_path when one
\* is given and otherwise overwrites notebook_path, and returns the path it
\* wrote; when output_path differs from notebook_path the input file is left
\* unchanged; when neither prepend_markdown nor move_imports_to_top is set the
\* written content equals the input content.
C14_WritesTarget ==
    (last = "transform" /\ targ.called) =>
        LET written == IF targ.output_path # None THEN targ.output_path
                       ELSE targ.notebook_path
        IN /\ targ.ret = written
           /\ files[written] = text
           /\ \A p \in Paths \ {written} :
                 files[p] = (IF p = targ.notebook_path THEN src ELSE NoFile)
           /\ (targ.pm \in {NoMd, <<>>} /\ ~targ.mv) => files[written] = src

C14_Witness ==
    /\ last = "transform"
    /\ targ.called
    /\ targ.output_path = "out.py"
    /\ targ.ret = "out.py"
    /\ files["nb.py"] = src
    /\ files["out.py"] # src

\* the number of cell decorators in a text
Markers(t) == Cardinality({i \in 1..Len(t) : t[i] \in Decorators})

\* C23: _parse_notebook is lossless: for every notebook text, preamble + the
\* concatenation of the parsed cells + postamble equals the input text byte
\* for byte, whether or not the last cell carries an if __name__ entry-point
\* guard, and no cell decorator is dropped.
C23_ParseLossless ==
    (parsed # NoParse /\ last = "input" /\ text \in Notebooks) =>
        /\ parsed.preamble \o Concat(parsed.cells) \o parsed.postamble = text
        /\ Len(parsed.cells) = Markers(text)

\* text with no @app.cell marker
NoMarker(t) == \A i \in 1..Len(t) : t[i] \notin Decorators

\* C13: for text with no recognized cell marker, parsing yields the whole
\* text as preamble with zero cells and empty postamble, and prepend_markdown,
\* move_imports_to_top and transform_notebook with any options pass the text
\* through unchanged.
C13_MalformedPassThrough ==
    /\ (NoMarker(text) /\ parsed # NoParse) =>
           parsed = [preamble |-> text, cells |-> <<>>, postamble |-> <<>>]
    /\ (NoMarker(src) /\ last \in {"prepend", "move", "transform"}) => text = src

\* C4: move_imports_to_top is a stable partition of the parsed cell list: the
\* cells it joins have every import cell before every other cell, the import
\* cells in their original order, the other cells in their original order,
\* none lost, duplicated or altered; the output is the preamble, these cells
\* and the postamble; and where the text holds no if __name__, parsing the
\* output gives exactly these cells.
C4_StablePartition ==
    (last = "move") =>
        LET p0 == _parse_notebook(src)
            out == targ.cells
        IN /\ Len(out) = Len(p0.cells)
           /\ ImportsArePrefix(out)
           /\ SelectSeq(out, HasImportMarimo) = SelectSeq(p0.cells, HasImportMarimo)
           /\ SelectSeq(out, NotImport) = SelectSeq(p0.cells, NotImport)
           /\ text = p0.preamble \o Concat(out) \o p0.postamble
           /\ (parsed # NoParse /\ Find(src, "MAIN") = 0) => parsed.cells = out

\* C4 witness: a move that reordered a list with two different import cells
\* and two different other cells, parsed again.
C4_Witness ==
    /\ last = "move"
    /\ moves = 1
    /\ parsed # NoParse
    /\ text # src
    /\ Find(src, "MAIN") = 0
    /\ Len(ImportCells(targ.cells)) = 2
    /\ Len(OtherCells(targ.cells)) = 2
    /\ targ.cells[1] # targ.cells[2]
    /\ targ.cells[3] # targ.cells[4]

\* the first cell of the original notebook that is not an import cell
FirstOther(content) == OtherCells(_parse_notebook(content).cells)[1]

\* C5: transform_notebook with both options writes the markdown first, then
\* the import marimo as mo cell, then the remaining original cells, for
\* every well-formed notebook with a cell that is not an import cell.
C5_TransformOrder ==
    (/\ last = "transform"
     /\ orig \in Notebooks
     /\ targ.pm \in MdTexts
     /\ targ.mv
     /\ Len(OtherCells(_parse_notebook(src).cells)) > 0) =>
        /\ Find(text, "W") > 0
        /\ Find(text, "W") < Find(text, "IMO")
        /\ Find(text, "IMO") < FindSub(text, FirstOther(src))

-----------------------------------------------------------------------------
(* Claims about detection and the launcher test, checked under SpecG *)

ExtensionListed(cfg) ==
    cfg.extensions.set /\ \E i \in 1..Len(cfg.extensions.v) : cfg.extensions.v[i] = GenGallery

ConfNonEmpty(cfg) ==
    cfg.sphinx_gallery_conf.set /\ cfg.sphinx_gallery_conf.keys # {}

\* C9: detect_sphinx_gallery returns true iff sphinx_gallery.gen_gallery is
\* among the configured extensions and sphinx_gallery_conf is non-empty; it
\* returns false otherwise and never raises.
C9_DetectIff ==
    (obs.op = "detect") =>
        /\ ~obs.raised
        /\ obs.ret = (ExtensionListed(config) /\ ConfNonEmpty(config))

\* C9 witness: a detection that succeeded.
C9_Witness ==
    /\ obs.op = "detect"
    /\ obs.ret
    /\ gallery_detected

\* the gallery output directory names the configuration declares
ConfiguredNames(cfg) ==
    IF cfg.sphinx_gallery_conf.set /\ "gallery_dirs" \in cfg.sphinx_gallery_conf.keys
    THEN {cfg.sphinx_gallery_conf.gallery_dirs.v[i] :
             i \in 1..Len(cfg.sphinx_gallery_conf.gallery_dirs.v)}
    ELSE {}

\* C10: should_inject_launcher(doc) is true iff the gallery was detected and
\* doc starts with one of the configured gallery output directory names,
\* whether gallery_dirs is a list of names or a single name.
C10_InjectIffPrefix ==
    (obs.op = "inject") =>
        obs.ret = (/\ gallery_detected
                   /\ \E name \in ConfiguredNames(config) : StartsWith(obs.doc, name))

\* C19: in every reachable state where the integration is in the detected
\* state, the gallery configuration declares at least one output directory
\* (gallery_dirs is present and non-empty).
C19_DetectedHasDirs ==
    gallery_detected => ConfiguredNames(config) # {}

\* C20: after any sequence of detect_sphinx_gallery calls and configuration
\* changes, the detected state equals the result of the most recent
\* detect_sphinx_gallery call: a detection that returns false leaves the
\* integration undetected.
C20_DetectedIsLastResult ==
    (obs.op = "detect") => gallery_detected = obs.ret

-----------------------------------------------------------------------------
(* The loader state machine: marimo-loader.js on a page of marimo directives *)

\* the iframe's 'load' listener, once for every listener registered on it:
\* each removes its own loading div, then initializeNotebook posts the init
\* message and setupAutoResize registers a window message listener
LoadListener(d) ==
    [d EXCEPT !.loading = IF d.handlers > 0 THEN 0 ELSE @,
              !.inits = @ + d.handlers,
              !.resizers = @ + d.handlers]

\* the iframe's 'error' listener, once for every listener registered on it:
\* each removes its own loading div and appends an error div
ErrorListener(d) ==
    [d EXCEPT !.loading = IF d.handlers > 0 THEN 0 ELSE @,
              !.errors = @ + d.handlers]

ResizeAnySource(d, c, source, type, height) ==
    IF d.resizers > 0 /\ type = "marimo-resize"
    THEN [d EXCEPT !.height = height]
    ELSE d

\* the message listeners setupAutoResize bound to the iframe of container c,
\* given a message event from the window source
ResizeListener(d, c, source, type, height) ==
    IF d.resizers > 0 /\ type = "marimo-resize" /\ source = c
    THEN [d EXCEPT !.height = height]
    ELSE d

\* the script of the directive, or any later caller: MarimoLoader.load
Load(c) ==
    /\ event.n < MaxEvents
    /\ IF dom[c].notebook \in loadedNotebooks
       THEN UNCHANGED dom
       ELSE IF ~dom[c].iframe
            THEN UNCHANGED dom
            ELSE dom' = [dom EXCEPT ![c].loading = @ + 1, ![c].handlers = @ + 1]
    /\ event' = [op |-> "load", c |-> c, type |-> "none", height |-> 0, n |-> event.n + 1]
    /\ UNCHANGED <<loadedNotebooks, tvars, gvars>>

\* the browser fires 'load' on the iframe of container c
IframeLoad(c) ==
    /\ event.n < MaxEvents
    /\ dom[c].iframe
    /\ dom' = [dom EXCEPT ![c] = LoadListener(@)]
    /\ loadedNotebooks' = IF dom[c].handlers > 0
                          THEN loadedNotebooks \cup {dom[c].notebook}
                          ELSE loadedNotebooks
    /\ event' = [op |-> "iframe load", c |-> c, type |-> "none", height |-> 0,
                 n |-> event.n + 1]
    /\ UNCHANGED <<tvars, gvars>>

\* the browser fires 'error' on the iframe of container c
IframeError(c) ==
    /\ event.n < MaxEvents
    /\ dom[c].iframe
    /\ dom' = [dom EXCEPT ![c] = ErrorListener(@)]
    /\ event' = [op |-> "iframe error", c |-> c, type |-> "none", height |-> 0,
                 n |-> event.n + 1]
    /\ UNCHANGED <<loadedNotebooks, tvars, gvars>>

\* a message event reaches the window: every registered listener sees it
Message(source, type, height) ==
    /\ dom' = [c \in Containers |-> ResizeListener(dom[c], c, source, type, height)]
    /\ event' = [op |-> "message", c |-> source, type |-> type, height |-> height,
                 n |-> event.n]
    /\ UNCHANGED <<loadedNotebooks, tvars, gvars>>

LInit == LIdle /\ TIdle /\ GIdle

LNext ==
    \/ \E c \in Containers : Load(c)
    \/ \E c \in Containers : IframeLoad(c)
    \/ \E c \in Containers : IframeError(c)
    \/ \E source \in Windows, type \in MessageTypes, height \in Heights :
          Message(source, type, height)

SpecL == LInit /\ [][LNext]_vars

LoaderStep ==
    LET c == event'.c IN
    /\ loadedNotebooks \subseteq loadedNotebooks'
    /\ loadedNotebooks' # loadedNotebooks =>
          /\ event'.op = "iframe load"
          /\ loadedNotebooks' = loadedNotebooks \cup {dom[c].notebook}
    /\ (event'.op = "load" /\ dom[c].notebook \in loadedNotebooks) =>
          /\ dom' = dom
          /\ loadedNotebooks' = loadedNotebooks
    /\ (event'.op = "load" /\ dom[c].notebook \notin loadedNotebooks) =>
          /\ dom'[c].loading = dom[c].loading + 1
          /\ dom'[c].height = dom[c].height
          /\ \A o \in Containers \ {c} : dom'[o] = dom[o]
    /\ event'.op \in {"iframe load", "iframe error"} => dom'[c].loading = 0
    /\ event'.op = "message" =>
          \A o \in Containers : dom'[o].height # dom[o].height => o = c

\* C21: load for a name already in loadedNotebooks changes nothing; otherwise it
\* adds one loading indicator to the container, and a load or an error event of
\* the iframe leaves the container without one; a name enters loadedNotebooks
\* only on a load event and never leaves it; a resize message changes the
\* height of no iframe but the one whose window sent it.
C21_Loader == [][LoaderStep]_vars

\* two iframes have loaded and listen for resize messages, one has been resized
\* by a message of its own window and the other kept the height it had
C21_Witness ==
    \E c, o \in Containers :
        /\ c # o
        /\ dom[c].notebook \in loadedNotebooks
        /\ dom[c].resizers > 0 /\ dom[o].resizers > 0
        /\ dom[c].loading = 0
        /\ event.op = "message" /\ event.c = c
        /\ dom[c].height = event.height
        /\ dom[o].height = DefaultHeight

====
